---- MODULE Spec2Model ----
(***************************************************************************)
(* Model of the per-meeting retrieval and question-answering core of       *)
(* MeetingRAG (src/rag.py): the index map, the conversation memories, the  *)
(* artifact lookup, and the coroutines of answer_question as they          *)
(* interleave on the single asyncio event loop of the application          *)
(* (src/app.py).                                                           *)
(***************************************************************************)
EXTENDS Integers, Sequences, FiniteSets, TLC

\* ------------------------------------------------------------------ bounds
\* Number of answer_question requests issued in a behaviour.
NumReqs == 3
\* Writes to output/ in a behaviour of the lifecycle specification.
MaxClock == 2
\* Requests issued in a behaviour of the lifecycle specification.
LoadReqs == 1
\* Largest creation time of the directories the lookup is applied to.
MaxCtime == 2
\* Chunks of an index an answer is given over.
MaxChunks == 4
\* Levels of similarity between a chunk and a question.
MaxScore == 2
\* Paragraphs of a document given to the splitter.
MaxParas == 3
\* Items of a list field of an analysis record.
MaxItems == 1
\* Fields of a response of the completion service that are absent or of a
\* wrong type.
MaxDefects == 1

\* ----------------------------------------------------------------- strings
\* A string is a sequence of one-character strings.
UpperChars == <<"A","B","C","D","E","F","G","H","I","J","K","L","M",
                "N","O","P","Q","R","S","T","U","V","W","X","Y","Z">>
LowerChars == <<"a","b","c","d","e","f","g","h","i","j","k","l","m",
                "n","o","p","q","r","s","t","u","v","w","x","y","z">>

\* str.lower() on one character
LowerChar(c) ==
  IF \E i \in 1..Len(UpperChars) : UpperChars[i] = c
  THEN LowerChars[CHOOSE i \in 1..Len(UpperChars) : UpperChars[i] = c]
  ELSE c

\* str.lower()
Lower(s) == [i \in 1..Len(s) |-> LowerChar(s[i])]

\* str.replace(' ', '_')
ReplaceSpaces(s) == [i \in 1..Len(s) |-> IF s[i] = " " THEN "_" ELSE s[i]]

\* f.startswith(p)
StartsWith(f, p) == Len(p) <= Len(f) /\ SubSeq(f, 1, Len(p)) = p

DotJson == <<".","j","s","o","n">>

\* f.endswith('.json')
EndsWithJson(f) ==
  Len(f) >= Len(DotJson) /\ SubSeq(f, Len(f) - Len(DotJson) + 1, Len(f)) = DotJson

\* ------------------------------------------------- meeting ids and artifacts
IdWeeklyLower == <<"w","e","e","k","l","y"," ","s","y","n","c">>
IdWeeklySpace == <<"W","e","e","k","l","y"," ","S","y","n","c">>
IdWeeklyUnder == <<"W","e","e","k","l","y","_","S","y","n","c">>
IdNonexistent == <<"N","o","n","e","x","i","s","t","e","n","t"," ",
                   "M","e","e","t","i","n","g">>

\* The meeting ids callers pass to the question-answering entry point.
MeetingIds == {IdWeeklyLower, IdWeeklySpace, IdWeeklyUnder, IdNonexistent}

\* The ids the questions of the request specifications are about.
AskedIds == {IdWeeklyLower, IdWeeklySpace}

Stamp1 == <<"_","2","0","2","4","0","5","0","1","_","1","2","0","0","0","0">>
Stamp2 == <<"_","2","0","2","4","0","5","0","2","_","0","9","0","0","0","0">>

\* "Weekly_Sync_20240501_120000.json"
FileWeekly1 == IdWeeklyUnder \o Stamp1 \o DotJson
\* "Weekly_Sync_20240502_090000.json"
FileWeekly2 == IdWeeklyUnder \o Stamp2 \o DotJson
\* "weekly_sync_20240501_120000.json"
FileLower1 == Lower(IdWeeklyUnder) \o Stamp1 \o DotJson
\* "Weekly_Sync_20240501_120000.txt": in output/, but not an artifact
FileNotJson == IdWeeklyUnder \o Stamp1 \o <<".","t","x","t">>

\* "Weekly Sync_20240501_120000.json": the upload was named with a space
FileSpace1 == IdWeeklySpace \o Stamp1 \o DotJson

\* The names files of the output directory can have.
FileNames == {FileWeekly1, FileWeekly2, FileLower1, FileSpace1, FileNotJson}

\* The artifacts written while requests are served.
WrittenFiles == {FileWeekly1, FileLower1}

\* Shapes of a stored file's content: a meeting analysis with its eight
\* fields; one that lacks a field; one whose key_points is a text where a
\* list is expected.
Shapes == {"valid", "missing_field", "text_for_list"}

\* The shapes of the artifacts written in the lifecycle specification.
LoadShapes == {"valid", "missing_field"}

\* ------------------------------------------------------------------- state
Reqs == 1..NumReqs

VARIABLES
  use_gpu,      \* self.use_gpu: torch.cuda.is_available() at construction
  vectorstores, \* self.vectorstores: meeting id -> index
  memories,     \* self.memories: meeting id -> chat_memory.messages
  store,        \* files of output/: name -> [ctime, shape]
  clock,        \* time of the latest write to output/
  pc,           \* position of each answer_question coroutine
  mid,          \* its meeting_id argument
  alias,        \* whether its chat_history still is the memory's live list
  snap,         \* contents of the list it holds once the memory dropped it
  sent,         \* chat history in its latest call of the completion service
  err,          \* detail of the HTTPException it raised
  cause,        \* what made it fail (observer)
  prior,        \* requests answered, in order, and not cleared when it started
                \* (observer)
  builds,       \* meeting id -> index builds completed (observer)
  answered,     \* meeting id -> requests in completion order since the last
                \* clear of its memory (observer)
  call,         \* a function of the pipeline taken on its own, with its arguments
  result        \* what it returned

vars == <<use_gpu, vectorstores, memories, store, clock, pc, mid, alias, snap,
          sent, err, cause, prior, builds, answered, call, result>>

reqVars == <<pc, mid, alias, snap, sent, err, cause, prior>>

NoId == <<>>

\* dict[key] = value
Put(d, k, v) == [x \in (DOMAIN d) \cup {k} |-> IF x = k THEN v ELSE d[x]]

\* HumanMessage(question), AIMessage(answer) of request r
Human(r) == <<"human", r>>
Ai(r) == <<"ai", r>>

\* The turn save_context appends for request r.
Turn(r) == <<Human(r), Ai(r)>>

\* No function is looked at on its own.
NoCall == [fn |-> "none"]
NoResult == <<>>

\* The state of a MeetingRAG after __init__, before any request.
InitObject ==
  /\ vectorstores = [m \in {} |-> 0]
  /\ memories = [m \in {} |-> 0]
  /\ pc = [r \in Reqs |-> "idle"]
  /\ mid = [r \in Reqs |-> NoId]
  /\ alias = [r \in Reqs |-> FALSE]
  /\ snap = [r \in Reqs |-> <<>>]
  /\ sent = [r \in Reqs |-> <<>>]
  /\ err = [r \in Reqs |-> "none"]
  /\ cause = [r \in Reqs |-> "none"]
  /\ prior = [r \in Reqs |-> <<>>]
  /\ builds = [m \in MeetingIds |-> 0]
  /\ answered = [m \in MeetingIds |-> <<>>]

Valid(t) == [ctime |-> t, shape |-> "valid"]

\* Contents of output/ when the conversations of the request specification
\* take place: both meetings stored, or only the one named in capitals.
InitialStores ==
  { (FileWeekly1 :> Valid(1)) @@ (FileLower1 :> Valid(2)),
    (FileWeekly1 :> Valid(1)) }

\* Conversations over a directory that does not change, on a host without
\* accelerator.
Init ==
  /\ InitObject
  /\ use_gpu = FALSE
  /\ store \in InitialStores
  /\ clock = MaxClock
  /\ call = NoCall
  /\ result = NoResult

\* The lifecycle: an empty directory that fills while meetings are loaded.
InitLoad ==
  /\ InitObject
  /\ use_gpu \in BOOLEAN
  /\ store = [f \in {} |-> 0]
  /\ clock = 0
  /\ call = NoCall
  /\ result = NoResult

\* Directories the lookup is applied to: any files, creation times with ties.
LookupStores ==
  UNION { [F -> {Valid(t) : t \in 1..MaxCtime}] : F \in SUBSET FileNames }

InitLookup ==
  /\ InitObject
  /\ use_gpu = FALSE
  /\ store \in LookupStores
  /\ clock = MaxClock
  /\ call = NoCall
  /\ result = NoResult

\* ------------------------------------------------------------ artifact store
\* A file appears in output/ (save_analysis writes "<name>_<timestamp>.json";
\* anything else in the directory comes from outside the application).
StoreArtifact(f, shape) ==
  /\ clock < MaxClock
  /\ store' = Put(store, f, [ctime |-> clock + 1, shape |-> shape])
  /\ clock' = clock + 1
  /\ UNCHANGED <<use_gpu, call, result, vectorstores, memories, reqVars, builds, answered>>

\* The orders in which os.listdir can return the files of output/.
Listings(st) ==
  LET n == Cardinality(DOMAIN st)
  IN  {l \in [1..n -> DOMAIN st] : \A i, j \in 1..n : l[i] = l[j] => i = j}

\* ------------------------------------------------------------------- lookup
\* all_files: the names of the listing that end in .json
JsonFiles == {f \in FileNames : EndsWithJson(f)}

\* Variant: every file of the listing is a candidate.
AllFiles_Unfiltered(listing) == listing

AllFiles(listing) == LET IsJson(f) == f \in JsonFiles IN SelectSeq(listing, IsJson)

\* patterns: the four spellings of the meeting id that are tried
Patterns(meeting_id) ==
  << Lower(ReplaceSpaces(meeting_id)),
     ReplaceSpaces(meeting_id),
     meeting_id,
     Lower(meeting_id) >>

\* the test of the comprehension: f starts with the pattern or with the
\* pattern with its spaces replaced
MatchesPattern(f, pattern) ==
  StartsWith(f, pattern) \/ StartsWith(f, ReplaceSpaces(pattern))

\* The test above, tabulated for the ids and the file names of the model.
PatternMatches ==
  [m \in MeetingIds |->
    [i \in 1..4 |-> {f \in FileNames : MatchesPattern(f, Patterns(m)[i])}]]

\* files: for each pattern in turn, the files of all_files that match it
RECURSIVE MatchedFrom(_, _, _)
MatchedFrom(meeting_id, i, all_files) ==
  IF i > 4 THEN <<>>
  ELSE LET Keep(f) == f \in PatternMatches[meeting_id][i]
       IN  SelectSeq(all_files, Keep) \o MatchedFrom(meeting_id, i + 1, all_files)

MatchedFiles(meeting_id, listing) ==
  MatchedFrom(meeting_id, 1, AllFiles(listing))

\* max(files, key=getctime): the first element with the greatest key
RECURSIVE MaxBy(_, _)
MaxBy(files, st) ==
  IF Len(files) = 1 THEN files[1]
  ELSE LET rest == MaxBy(Tail(files), st)
       IN  IF st[Head(files)].ctime >= st[rest].ctime THEN Head(files) ELSE rest

\* Variant: the first match is taken.
LatestFile_First(files, st) == files[1]

\* latest_file
LatestFile(files, st) == MaxBy(files, st)

\* ------------------------------------------------------- load_meeting_data
\* What can go wrong with a collaborator during one call.
LoadFaults == {"none", "disk", "embed"}

\* Variant: the test of line 70 never finds the index.
AlreadyLoaded_Never(meeting_id) == FALSE

\* meeting_id in self.vectorstores
AlreadyLoaded(meeting_id) == meeting_id \in DOMAIN vectorstores

\* FAISS.from_texts over the chunks of the artifact: an index in host memory
BuiltIndex(f) == [artifact |-> f, ctime |-> store[f].ctime, device |-> "cpu"]

\* the move to the accelerator, best effort: on an error the index stays as built
PlaceIndex(index, gpu_error) ==
  IF use_gpu /\ ~gpu_error THEN [index EXCEPT !.device = "gpu"] ELSE index

\* ConversationBufferMemory(): no messages
NewMemory == <<>>

\* _prepare_context(meeting_data), by the shape of the data: each field is read
\* by its key, so that a missing field raises KeyError; the list fields are
\* iterated or joined, which a text allows as well as a list (character by
\* character), so that the context is composed and nothing is raised.
prepare_context(shape) ==
  IF shape = "missing_field" THEN "KeyError" ELSE "context"

\* Variant: the failure is remembered, as an index that is no index.
LoadFailed_Cached(meeting_id, why, read) ==
  [ret |-> FALSE,
   vectorstores |-> Put(vectorstores, meeting_id,
                        [artifact |-> NoId, ctime |-> 0, device |-> "cpu",
                         pos |-> 0]),
   memories |-> memories, why |-> why, read |-> read, built |-> FALSE]

\* return False: nothing was stored for the meeting
LoadFailed(meeting_id, why, read) ==
  [ret |-> FALSE, vectorstores |-> vectorstores, memories |-> memories,
   why |-> why, read |-> read, built |-> FALSE]

\* Variant: the index is stored under the id in lower case with underscores.
Insert_Normalized(d, k, index) ==
  Put(d, Lower(ReplaceSpaces(k)), [pos |-> Cardinality(DOMAIN d) + 1] @@ index)

\* self.vectorstores[meeting_id] = vectorstore, for an id that is not a key:
\* the entry is the last of the dict, which keeps its keys in insertion order
Insert(d, k, index) ==
  Put(d, k, [pos |-> Cardinality(DOMAIN d) + 1] @@ index)

\* Variant: the index is stored and the memory is not.
LoadStored_IndexOnly(meeting_id, index) ==
  [ret |-> TRUE,
   vectorstores |-> Insert(vectorstores, meeting_id, index),
   memories |-> memories,
   why |-> "none", read |-> TRUE, built |-> TRUE]

\* the index and the memory are stored under the id as given; return True
LoadStored(meeting_id, index) ==
  [ret |-> TRUE,
   vectorstores |-> Insert(vectorstores, meeting_id, index),
   memories |-> Put(memories, meeting_id, NewMemory),
   why |-> "none", read |-> TRUE, built |-> TRUE]

\* Variant: the error of the move to the accelerator reaches the except clause
\* of line 148.
load_meeting_data_PlacementFatal(meeting_id, listing, fault, gpu_error) ==
  IF AlreadyLoaded(meeting_id)
  THEN [ret |-> TRUE, vectorstores |-> vectorstores, memories |-> memories,
        why |-> "none", read |-> FALSE, built |-> FALSE]
  ELSE IF fault = "disk" THEN LoadFailed(meeting_id, "disk", TRUE)
  ELSE LET files == MatchedFiles(meeting_id, listing)
       IN  IF files = <<>> THEN LoadFailed(meeting_id, "no_match", TRUE)
           ELSE LET latest_file == LatestFile(files, store)
                IN  IF prepare_context(store[latest_file].shape) = "KeyError"
                    THEN LoadFailed(meeting_id, "malformed", TRUE)
                    ELSE IF fault = "embed" THEN LoadFailed(meeting_id, "embed", TRUE)
                    ELSE IF use_gpu /\ gpu_error
                    THEN LoadFailed(meeting_id, "placement", TRUE)
                    ELSE LoadStored(meeting_id,
                                    PlaceIndex(BuiltIndex(latest_file), gpu_error))

\* Variant: a load for a meeting that has its index gives it a new memory.
load_meeting_data_ResetsMemory(meeting_id, listing, fault, gpu_error) ==
  IF AlreadyLoaded(meeting_id)
  THEN [ret |-> TRUE, vectorstores |-> vectorstores,
        memories |-> Put(memories, meeting_id, NewMemory),
        why |-> "none", read |-> FALSE, built |-> FALSE]
  ELSE IF fault = "disk" THEN LoadFailed(meeting_id, "disk", TRUE)
  ELSE LET files == MatchedFiles(meeting_id, listing)
       IN  IF files = <<>> THEN LoadFailed(meeting_id, "no_match", TRUE)
           ELSE LET latest_file == LatestFile(files, store)
                IN  IF prepare_context(store[latest_file].shape) = "KeyError"
                    THEN LoadFailed(meeting_id, "malformed", TRUE)
                    ELSE IF fault = "embed" THEN LoadFailed(meeting_id, "embed", TRUE)
                    ELSE LoadStored(meeting_id,
                                    PlaceIndex(BuiltIndex(latest_file), gpu_error))

\* load_meeting_data(meeting_id), with the listing os.listdir returns and the
\* faults of its collaborators as inputs. It has no await: it runs in one step.
load_meeting_data(meeting_id, listing, fault, gpu_error) ==
  IF AlreadyLoaded(meeting_id)
  THEN [ret |-> TRUE, vectorstores |-> vectorstores, memories |-> memories,
        why |-> "none", read |-> FALSE, built |-> FALSE]
  ELSE IF fault = "disk" THEN LoadFailed(meeting_id, "disk", TRUE)
  ELSE LET files == MatchedFiles(meeting_id, listing)
       IN  IF files = <<>> THEN LoadFailed(meeting_id, "no_match", TRUE)
           ELSE LET latest_file == LatestFile(files, store)
                IN  IF prepare_context(store[latest_file].shape) = "KeyError"
                    THEN LoadFailed(meeting_id, "malformed", TRUE)
                    ELSE IF fault = "embed" THEN LoadFailed(meeting_id, "embed", TRUE)
                    ELSE LoadStored(meeting_id,
                                    PlaceIndex(BuiltIndex(latest_file), gpu_error))

\* An explicit load request: load_meeting_data called on its own.
LoadMeeting(m, listing, fault, gpu_error) ==
  LET res == load_meeting_data(m, listing, fault, gpu_error)
  IN  /\ vectorstores' = res.vectorstores
      /\ memories' = res.memories
      /\ builds' = IF res.built THEN [builds EXCEPT ![m] = @ + 1] ELSE builds
      /\ UNCHANGED <<use_gpu, call, result, store, clock, reqVars, answered>>

\* ---------------------------------------------------------- answer_question
\* A request is in flight between the start of chain.ainvoke and its end.
InFlight(r) == pc[r] \in {"retrieving", "answering"}

\* Variant: the chain is given no chat history.
View_Fresh(r) == <<>>

\* The list a request holds as chat_history: the memory's own list of
\* messages (line 196 passes the list itself), or, once clear() has given the
\* memory a new list, the old one.
View(r) == IF alias[r] THEN memories[mid[r]] ELSE snap[r]

\* Variant: the result of the load is not tested, and the lookup of line 173
\* raises.
NotFoundDetail_KeyError == "KeyError"

\* The message of the ValueError raised when the load returns false.
NotFoundDetail == "Meeting data not found"

\* answer_question up to the first await inside chain.ainvoke: the load when
\* the meeting has no index, the lookups of lines 173-174, the chain, and the
\* first call of ainvoke: when there is chat history, the completion service
\* is called with it to condense the question; the retriever is called next.
AskStart(r, m, listing, fault, gpu_error) ==
  /\ pc[r] = "idle"
  /\ \A q \in Reqs : q < r => pc[q] # "idle"
  /\ LET res == IF ~AlreadyLoaded(m)
                THEN load_meeting_data(m, listing, fault, gpu_error)
                ELSE [ret |-> TRUE, vectorstores |-> vectorstores,
                      memories |-> memories, why |-> "none",
                      read |-> FALSE, built |-> FALSE]
     IN  /\ vectorstores' = res.vectorstores
         /\ memories' = res.memories
         /\ builds' = IF res.built THEN [builds EXCEPT ![m] = @ + 1] ELSE builds
         /\ mid' = [mid EXCEPT ![r] = m]
         /\ prior' = [prior EXCEPT ![r] = answered[m]]
         /\ IF ~res.ret
            THEN /\ pc' = [pc EXCEPT ![r] = "failed"]
                 /\ err' = [err EXCEPT ![r] = NotFoundDetail]
                 /\ cause' = [cause EXCEPT ![r] = res.why]
                 /\ UNCHANGED <<alias, sent>>
            ELSE /\ alias' = [alias EXCEPT ![r] = TRUE]
                 /\ pc' = [pc EXCEPT ![r] = "retrieving"]
                 /\ sent' = [sent EXCEPT ![r] = res.memories[m]]
                 /\ UNCHANGED <<err, cause>>
  /\ UNCHANGED <<use_gpu, call, result, store, clock, snap, answered>>

\* The exception of a collaborator reaches the except clause of line 207.
Raise(r, why) ==
  /\ pc' = [pc EXCEPT ![r] = "failed"]
  /\ err' = [err EXCEPT ![r] = why]
  /\ cause' = [cause EXCEPT ![r] = why]

\* What can fail while a request waits for its chunks: the embedding of the
\* question, and the completion service when it was called to condense the
\* question.
RetrieveFaults(r) ==
  {"none", "embed"} \cup (IF sent[r] # <<>> THEN {"llm"} ELSE {})

\* The awaits of ainvoke before the answer is asked for, taken together: the
\* completion service returns the condensed question (when there was chat
\* history) and the retriever the top k chunks, or one of them fails; the
\* prompt is then composed from the context, the messages of the
\* chat_history list as they are now, and the question, and the completion
\* service is called with it.
Retrieve(r, fault) ==
  /\ pc[r] = "retrieving"
  /\ IF fault # "none"
     THEN /\ Raise(r, fault)
          /\ UNCHANGED sent
     ELSE /\ pc' = [pc EXCEPT ![r] = "answering"]
          /\ sent' = [sent EXCEPT ![r] = View(r)]
          /\ UNCHANGED <<err, cause>>
  /\ UNCHANGED <<use_gpu, call, result, vectorstores, memories, store, clock, mid, alias,
                 snap, prior, builds, answered>>

\* Variant: the turn is appended to the history the request read, and the
\* result written back.
SaveContext_FromRead(messages, r) == sent[r] \o Turn(r)

\* Variant: the turn is appended twice.
SaveContext_Twice(messages, r) == messages \o Turn(r) \o Turn(r)

\* memory.save_context: the question and the answer are appended, in one
\* step, to the list the memory holds now
SaveContext(messages, r) == messages \o Turn(r)

\* Variant: the question is saved before the completion service is called, so
\* that it stays in the memory when the call fails.
Complete_SavesQuestionFirst(r, fault) ==
  /\ pc[r] = "answering"
  /\ IF fault = "llm"
     THEN /\ Raise(r, "llm")
          /\ memories' = [memories EXCEPT ![mid[r]] = Append(@, Human(r))]
          /\ UNCHANGED answered
     ELSE /\ pc' = [pc EXCEPT ![r] = "done"]
          /\ memories' = [memories EXCEPT ![mid[r]] = SaveContext(@, r)]
          /\ answered' = [answered EXCEPT ![mid[r]] = Append(@, r)]
          /\ UNCHANGED <<err, cause>>
  /\ UNCHANGED <<use_gpu, call, result, vectorstores, store, clock, mid, alias, snap, sent,
                 prior, builds>>

\* Variant: the handler moves the index back to the host once it has its
\* answer.
Complete_ReleasesIndex(r, fault) ==
  /\ pc[r] = "answering"
  /\ IF fault = "llm"
     THEN /\ Raise(r, "llm")
          /\ UNCHANGED <<memories, answered, vectorstores>>
     ELSE /\ pc' = [pc EXCEPT ![r] = "done"]
          /\ memories' = [memories EXCEPT ![mid[r]] = SaveContext(@, r)]
          /\ answered' = [answered EXCEPT ![mid[r]] = Append(@, r)]
          /\ vectorstores' = [vectorstores EXCEPT ![mid[r]].device = "cpu"]
          /\ UNCHANGED <<err, cause>>
  /\ UNCHANGED <<use_gpu, call, result, store, clock, mid, alias, snap, sent, prior, builds>>

\* The completion service returns the answer, which is saved to the memory and
\* returned with the sources; or it fails, and nothing is saved.
Complete(r, fault) ==
  /\ pc[r] = "answering"
  /\ IF fault = "llm"
     THEN /\ Raise(r, "llm")
          /\ UNCHANGED <<memories, answered>>
     ELSE /\ pc' = [pc EXCEPT ![r] = "done"]
          /\ memories' = [memories EXCEPT ![mid[r]] = SaveContext(@, r)]
          /\ answered' = [answered EXCEPT ![mid[r]] = Append(@, r)]
          /\ UNCHANGED <<err, cause>>
  /\ UNCHANGED <<use_gpu, call, result, vectorstores, store, clock, mid, alias, snap, sent,
                 prior, builds>>

\* ---------------------------------------------------- clear_meeting_context
\* ChatMessageHistory.clear(): the memory gets a new, empty list
ClearedMessages(messages) == <<>>

\* Variant: without a memory for the meeting the call reports a failure.
clear_meeting_context_RequiresMemory(mems, meeting_id) ==
  [ret |-> meeting_id \in DOMAIN mems,
   memories |-> IF meeting_id \in DOMAIN mems
                THEN [mems EXCEPT ![meeting_id] = ClearedMessages(@)]
                ELSE mems]

\* Variant: every memory is cleared.
clear_meeting_context_All(mems, meeting_id) ==
  [ret |-> TRUE,
   memories |-> IF meeting_id \in DOMAIN mems
                THEN [x \in DOMAIN mems |-> ClearedMessages(mems[x])]
                ELSE mems]

\* clear_meeting_context(meeting_id) applied to the memories mems: the memory
\* of the meeting is cleared if there is one; True is returned either way
\* (clear() raises nothing, so the except clause is never entered).
clear_meeting_context(mems, meeting_id) ==
  [ret |-> TRUE,
   memories |-> IF meeting_id \in DOMAIN mems
                THEN [mems EXCEPT ![meeting_id] = ClearedMessages(@)]
                ELSE mems]

\* Variant: the index of the meeting is removed with its turns.
ClearContext_DropsIndex(m) ==
  /\ memories' = clear_meeting_context(memories, m).memories
  /\ vectorstores' = [x \in DOMAIN vectorstores \ {m} |-> vectorstores[x]]
  /\ UNCHANGED <<use_gpu, call, result, store, clock, reqVars, builds, answered>>

\* A clear request. Requests in flight keep the list they were given.
ClearContext(m) ==
  /\ IF m \in DOMAIN memories
     THEN /\ memories' = clear_meeting_context(memories, m).memories
          /\ snap' = [r \in Reqs |->
                        IF InFlight(r) /\ mid[r] = m /\ alias[r]
                        THEN memories[m] ELSE snap[r]]
          /\ alias' = [r \in Reqs |->
                        IF InFlight(r) /\ mid[r] = m THEN FALSE ELSE alias[r]]
          /\ answered' = [answered EXCEPT ![m] = <<>>]
     ELSE UNCHANGED <<memories, snap, alias, answered>>
  /\ UNCHANGED <<use_gpu, call, result, vectorstores, store, clock, pc, mid, sent, err,
                 cause, prior, builds>>

\* ------------------------------------------------------------------ cleanup
\* Variant: the index changes sides.
ToCpu_Swap(index) ==
  [index EXCEPT !.device = IF @ = "gpu" THEN "cpu" ELSE "gpu"]

\* faiss.index_gpu_to_cpu: the index in host memory (a copy, when it was there)
ToCpu(index) == [index EXCEPT !.device = "cpu"]

\* cleanup() applied to the indices vs. With an accelerator in use the indices
\* are moved back to the host in the order of the dict; the one try block
\* holds the whole loop, so that when the move of the index at position
\* failed_at raises (0: none does), that index and those after it are left
\* as they are. The except clause logs the error: nothing is raised.
cleanup(vs, failed_at) ==
  [raised |-> FALSE,
   vectorstores |->
     IF use_gpu
     THEN [m \in DOMAIN vs |->
             IF failed_at = 0 \/ vs[m].pos < failed_at
             THEN ToCpu(vs[m]) ELSE vs[m]]
     ELSE vs]

\* The index whose move to the host raises, if any.
CleanupInputs ==
  IF use_gpu THEN 0..Cardinality(DOMAIN vectorstores) ELSE {0}

\* Variant: the indices are dropped at cleanup.
Cleanup_DropsIndexes(failed_at) ==
  /\ vectorstores' = [m \in {} |-> 0]
  /\ UNCHANGED <<use_gpu, call, result, memories, store, clock, reqVars, builds, answered>>

\* Variant: the memories are emptied at cleanup.
Cleanup_ClearsMemories(failed_at) ==
  /\ vectorstores' = cleanup(vectorstores, failed_at).vectorstores
  /\ memories' = [m \in DOMAIN memories |-> <<>>]
  /\ UNCHANGED <<use_gpu, call, result, store, clock, reqVars, builds, answered>>

\* The shutdown event: cleanup() is awaited.
Cleanup(failed_at) ==
  /\ vectorstores' = cleanup(vectorstores, failed_at).vectorstores
  /\ UNCHANGED <<use_gpu, call, result, memories, store, clock, reqVars, builds, answered>>

\* ---------------------------------------------------------- _prepare_context
\* A text is a sequence of tokens: the literals of the code, and the texts of
\* the record, each taken whole.
ItemNames == <<"item 1", "item 2", "item 3">>

\* The values of a list field: up to MaxItems texts.
ItemLists == { [i \in 1..n |-> ItemNames[i]] : n \in 0..MaxItems }

\* The analysis records the context is prepared from.
ContextCalls ==
  { [fn |-> "context",
     meeting_data |-> [transcript |-> "the transcript", key_points |-> kp,
                       action_items |-> ai, participants |-> pa,
                       follow_up |-> fu, dates |-> da,
                       next_steps |-> "the next steps",
                       summary |-> "the summary"]]
      : kp \in ItemLists, ai \in ItemLists, pa \in ItemLists,
        fu \in ItemLists, da \in ItemLists }

\* sep.join(texts)
RECURSIVE Join(_, _)
Join(sep, texts) ==
  IF texts = <<>> THEN <<>>
  ELSE IF Len(texts) = 1 THEN texts[1]
  ELSE texts[1] \o <<sep>> \o Join(sep, Tail(texts))

\* "\n".join([f"- {item}" for item in items])
Bullets(items) == Join("\n", [i \in 1..Len(items) |-> <<"- ", items[i]>>])

\* The list sections of _prepare_context. Its first two string literals
\* (lines 155-156) have no comma between them: they are one literal, and
\* the transcript and the key points are one element of the list.
sections(meeting_data) ==
  << <<"Full Transcript:\n", meeting_data.transcript>>
       \o <<"Key Points:\n">> \o Bullets(meeting_data.key_points),
     <<"Action Items:\n">> \o Bullets(meeting_data.action_items),
     <<"Participants: ">>
       \o Join(", ", [i \in 1..Len(meeting_data.participants) |->
                        <<meeting_data.participants[i]>>]),
     <<"Follow-up Items:\n">> \o Bullets(meeting_data.follow_up),
     <<"Important Dates:\n">> \o Bullets(meeting_data.dates),
     <<"Next Steps:\n", meeting_data.next_steps>>,
     <<"Meeting Summary:\n", meeting_data.summary, "\n">> >>

\* return "\n\n".join(sections)
context_of(meeting_data) == Join("\n\n", sections(meeting_data))

\* The context of a record is prepared.
PrepareContext ==
  /\ call.fn = "context"
  /\ result = NoResult
  /\ result' = context_of(call.meeting_data)
  /\ UNCHANGED <<use_gpu, call, vectorstores, memories, store, clock, reqVars,
                 builds, answered>>

\* ------------------------------------------------------------ text splitter
\* RecursiveCharacterTextSplitter(chunk_size=1000, chunk_overlap=200)
ChunkSize == 1000
ChunkOverlap == 200

\* The first separator of the splitter, "\n\n", and its length.
ParaSepLen == 2

\* The documents split: paragraphs of these lengths, joined by "\n\n" (no
\* paragraph holds the separator, and each is shorter than a chunk).
ParaLens == {300, 600, 900}
SplitCalls ==
  { [fn |-> "split", paras |-> paras]
      : paras \in UNION { [1..n -> ParaLens] : n \in 1..MaxParas } }

\* The length of the document.
DocLen(paras) ==
  LET RECURSIVE Total(_)
      Total(i) == IF i = 0 THEN 0 ELSE paras[i] + Total(i - 1)
  IN  Total(Len(paras)) + ParaSepLen * (Len(paras) - 1)

\* The text is cut at every "\n\n"; the separator is kept, at the head of
\* the piece that follows it (keep_separator, the default of the splitter).
\* A piece is lead characters of separator and body characters of paragraph.
SplitAtSeparator(paras) ==
  [i \in 1..Len(paras) |->
     [lead |-> IF i = 1 THEN 0 ELSE ParaSepLen, body |-> paras[i]]]

\* The length function over a piece, and over the pieces of current_doc.
PieceLen(piece) == piece.lead + piece.body
RECURSIVE TotalLen(_)
TotalLen(pieces) ==
  IF pieces = <<>> THEN 0 ELSE PieceLen(Head(pieces)) + TotalLen(Tail(pieces))

\* The while loop of _merge_splits: pieces are dropped from the head of
\* current_doc while it holds more than the overlap, or has no room for the
\* next piece (the pieces are joined by "", the separator being kept in them).
RECURSIVE DropHead(_, _)
DropHead(current_doc, len) ==
  LET total == TotalLen(current_doc)
  IN  IF total > ChunkOverlap \/ (total + len > ChunkSize /\ total > 0)
      THEN DropHead(Tail(current_doc), len)
      ELSE current_doc

\* _join_docs: the pieces joined and stripped of the white space around them:
\* the length of the chunk.
JoinDocs(current_doc) == TotalLen(current_doc) - Head(current_doc).lead

\* _merge_splits: the loop over the pieces, then the last chunk.
RECURSIVE MergeSplits(_, _, _)
MergeSplits(splits, current_doc, docs) ==
  IF splits = <<>>
  THEN IF current_doc = <<>> THEN docs ELSE Append(docs, JoinDocs(current_doc))
  ELSE LET d == Head(splits)
       IN  IF TotalLen(current_doc) + PieceLen(d) > ChunkSize /\ current_doc # <<>>
           THEN MergeSplits(Tail(splits),
                            Append(DropHead(current_doc, PieceLen(d)), d),
                            Append(docs, JoinDocs(current_doc)))
           ELSE MergeSplits(Tail(splits), Append(current_doc, d), docs)

\* text_splitter.split_text(context): the lengths of the chunks. Every piece
\* is shorter than chunk_size, so none is split further.
split_text(paras) == MergeSplits(SplitAtSeparator(paras), <<>>, <<>>)

\* A document is split.
SplitText ==
  /\ call.fn = "split"
  /\ result = NoResult
  /\ result' = split_text(call.paras)
  /\ UNCHANGED <<use_gpu, call, vectorstores, memories, store, clock, reqVars,
                 builds, answered>>

\* ------------------------------------------------- sources of an answer
\* The text of chunk c, n characters long: each character is named by the
\* chunk and its position.
Text(c, n) == [i \in 1..n |-> <<c, i>>]

\* The indices an answer is given over: up to MaxChunks chunks of these
\* lengths, and the similarity of each to the question.
ChunkLens == {150, 250}
SourceCall(lens, scores) ==
  [fn |-> "sources", chunks |-> [i \in 1..Len(lens) |-> Text(i, lens[i])],
   scores |-> scores]

\* search_kwargs={"k": 3}
TopK == 3

\* page_content[:200]
PreviewLen == 200

\* s[:n]
Take(s, n) == SubSeq(s, 1, IF Len(s) < n THEN Len(s) ELSE n)

Ellipsis == <<".", ".", ".">>

\* Variant: the whole chunk is shown.
Preview_NoCut(page_content) == page_content \o Ellipsis

\* doc.page_content[:200] + "..."
Preview(page_content) == Take(page_content, PreviewLen) \o Ellipsis

\* The retriever: the search of the index returns the chunks nearest to the
\* question, nearest first, k of them or all when the index holds fewer
\* (of equally near chunks the one added first comes first).
RECURSIVE Nearest(_, _, _)
Nearest(scores, left, k) ==
  IF k = 0 \/ left = {} THEN <<>>
  ELSE LET best == CHOOSE i \in left : \A j \in left :
                     scores[i] > scores[j] \/ (scores[i] = scores[j] /\ i <= j)
       IN  <<best>> \o Nearest(scores, left \ {best}, k - 1)

\* The sources of the answer: the previews of response['source_documents'].
Sources(chunks, scores) ==
  LET source_documents == Nearest(scores, DOMAIN chunks, TopK)
  IN  [i \in 1..Len(source_documents) |-> Preview(chunks[source_documents[i]])]

\* The sources of an answer are computed.
AnswerSources ==
  /\ call.fn = "sources"
  /\ result = NoResult
  /\ result' = Sources(call.chunks, call.scores)
  /\ UNCHANGED <<use_gpu, call, vectorstores, memories, store, clock, reqVars,
                 builds, answered>>

\* ------------------------------------------------------------ /analyze-audio
\* The fields of an analysis and the type validate_analysis requires of each
\* (required_fields).
required_fields ==
  [transcript |-> "str", summary |-> "str", key_points |-> "list",
   action_items |-> "list", participants |-> "list", follow_up |-> "list",
   dates |-> "list", emails |-> "list", resources |-> "list",
   next_steps |-> "str"]

\* What can be wrong with a field of the JSON object the completion service
\* returns: it is absent, its value is null, or a text stands where a list is
\* required and a list where a text is.
Ways == {"absent", "null", "other"}

OtherType(t) == IF t = "str" THEN "list" ELSE "str"

\* The JSON object in which the fields of wrong deviate as how says: the
\* fields it has, each with the type of its value.
Response(wrong, how) ==
  [f \in {g \in DOMAIN required_fields : g \notin wrong \/ how[g] # "absent"} |->
     IF f \notin wrong THEN required_fields[f]
     ELSE IF how[f] = "null" THEN "null"
     ELSE OtherType(required_fields[f])]

\* The objects taken: at most MaxDefects fields deviate.
Responses ==
  UNION { {Response(wrong, how) : how \in [wrong -> Ways]}
            : wrong \in {w \in SUBSET DOMAIN required_fields :
                           Cardinality(w) <= MaxDefects} }

\* validate_analysis(analysis): every required field is in the object, with a
\* value of the required type
validate_analysis(analysis) ==
  \A field \in DOMAIN required_fields :
    field \in DOMAIN analysis /\ analysis[field] = required_fields[field]

\* ALLOWED_EXTENSIONS
ALLOWED_EXTENSIONS ==
  {<<"w","a","v">>, <<"m","p","3">>, <<"o","g","g">>, <<"m","4","a">>}

\* The position of the last '.' of the name; 0 when it has none.
LastDot(filename) ==
  LET dots == {i \in 1..Len(filename) : filename[i] = "."}
  IN  IF dots = {} THEN 0 ELSE CHOOSE i \in dots : \A j \in dots : j <= i

\* allowed_file(filename)
allowed_file(filename) ==
  /\ LastDot(filename) > 0
  /\ Lower(SubSeq(filename, LastDot(filename) + 1, Len(filename)))
       \in ALLOWED_EXTENSIONS

\* os.path.splitext(filename)[0], for a name with an extension
Stem(filename) == SubSeq(filename, 1, LastDot(filename) - 1)

\* datetime.now().strftime('_%Y%m%d_%H%M%S') at the t-th second after noon
Digits == <<"0", "1", "2", "3", "4", "5", "6", "7", "8", "9">>
StampAt(t) ==
  <<"_","2","0","2","4","0","5","0","1","_","1","2","0","0","0">>
    \o <<Digits[t + 1]>>

\* The names of the files uploaded: recordings of the meeting, a file that is
\* no recording, and an upload without a name.
UploadNames ==
  { IdWeeklyUnder \o <<".","w","a","v">>,
    Lower(IdWeeklyUnder) \o <<".","M","P","3">>,
    IdWeeklyUnder \o <<".","t","x","t">>,
    <<>> }

\* What the recognizer makes of the recording: a text, no speech, or an error
\* (of the preprocessing or of the recognizer).
Transcriptions == {"text", "no_speech", "error"}

\* What the completion service returns: an error, a text that is no JSON, or
\* a JSON object.
Completions ==
  {[kind |-> "api_error"], [kind |-> "not_json"]}
    \cup {[kind |-> "json", analysis |-> a] : a \in Responses}

\* What happens to the write of save_analysis: it succeeds; makedirs or open
\* raises, and no file is made; or the file is opened, which creates it, and
\* json.dump or the close that flushes it raises (the device is full, or a
\* text of the analysis holds a character utf-8 cannot encode).
SaveFaults == {"none", "open", "write"}

\* The file a complete json.dump leaves, and the one a failed write leaves.
Written(analysis, t) == [ctime |-> t, complete |-> TRUE, analysis |-> analysis]
Truncated(t) == [ctime |-> t, complete |-> FALSE, analysis |-> <<>>]

\* The HTTP error a request ends with.
Rejected(status, detail) ==
  [status |-> status, detail |-> detail, store |-> store, saved |-> FALSE]

\* save_analysis(analysis, filename) and the response that follows it.
save_analysis(analysis, stem, fault) ==
  LET output_path == stem \o StampAt(clock) \o DotJson
  IN  IF fault = "open" THEN Rejected("500", "Failed to save analysis")
      ELSE IF fault = "write"
      THEN [status |-> "500", detail |-> "Failed to save analysis",
            store |-> Put(store, output_path, Truncated(clock + 1)),
            saved |-> FALSE]
      ELSE [status |-> "200", detail |-> "success",
            store |-> Put(store, output_path, Written(analysis, clock + 1)),
            saved |-> TRUE]

\* analyze_audio(file): the checks of the upload, the transcription, the
\* analysis with its validation, and the save, in this order; the first that
\* fails ends the request.
analyze_audio(filename, transcription, completion, fault) ==
  IF filename = <<>> THEN Rejected("400", "No file selected")
  ELSE IF ~allowed_file(filename) THEN Rejected("400", "Invalid file type")
  ELSE IF transcription # "text" THEN Rejected("500", "Transcription failed")
  ELSE IF completion.kind = "api_error" THEN Rejected("500", "API request failed")
  ELSE IF completion.kind = "not_json"
  THEN Rejected("500", "Failed to parse API response as JSON")
  ELSE IF ~validate_analysis(completion.analysis)
  THEN Rejected("500", "Invalid analysis structure from API")
  ELSE save_analysis(completion.analysis, Stem(filename), fault)

\* A request of /analyze-audio is served. The handler has one await that
\* yields, the read of the upload, before any of its effects.
AnalyzeAudio(filename, transcription, completion, fault) ==
  LET res == analyze_audio(filename, transcription, completion, fault)
  IN  /\ clock < MaxClock
      /\ call' = [fn |-> "analyze_audio", filename |-> filename,
                  transcription |-> transcription, completion |-> completion,
                  files_before |-> DOMAIN store]
      /\ result' = <<res.status, res.detail>>
      /\ store' = res.store
      /\ clock' = IF res.store # store THEN clock + 1 ELSE clock
      /\ UNCHANGED <<use_gpu, vectorstores, memories, reqVars, builds, answered>>

\* ------------------------------------------------------------ specification
\* The inputs a load reads: none when the meeting has an index already, and
\* no placement error without an accelerator.
ListingInputs(m) == IF AlreadyLoaded(m) THEN {<<>>} ELSE Listings(store)
FaultInputs(m) == IF AlreadyLoaded(m) THEN {"none"} ELSE LoadFaults
GpuInputs(m) == IF AlreadyLoaded(m) \/ ~use_gpu THEN {FALSE} ELSE BOOLEAN

\* Questions, answers and clears.
Next ==
  \/ \E r \in Reqs, m \in AskedIds : \E listing \in ListingInputs(m),
        fault \in FaultInputs(m), gpu_error \in GpuInputs(m) :
          AskStart(r, m, listing, fault, gpu_error)
  \/ \E r \in Reqs : \E fault \in RetrieveFaults(r) : Retrieve(r, fault)
  \/ \E r \in Reqs, fault \in {"none", "llm"} : Complete(r, fault)
  \/ \E m \in AskedIds : ClearContext(m)

Spec == Init /\ [][Next]_vars

\* The handler of request r runs up to its first await.
Start(r) ==
  \E m \in AskedIds : \E listing \in ListingInputs(m),
     fault \in FaultInputs(m), gpu_error \in GpuInputs(m) :
       AskStart(r, m, listing, fault, gpu_error)

\* Questions, answers and clears with the scheduling of the event loop: the
\* handler of every request is run. The steps that wait for a collaborator
\* have no fairness: the collaborator may never respond, and the code sets
\* no timeout on its calls.
SpecLive == Init /\ [][Next]_vars /\ \A r \in Reqs : WF_vars(Start(r))

\* Every operation, with few requests.
NextLoad ==
  \/ \E f \in WrittenFiles, shape \in LoadShapes : StoreArtifact(f, shape)
  \/ \E m \in AskedIds : \E listing \in ListingInputs(m),
        fault \in FaultInputs(m), gpu_error \in GpuInputs(m) :
          LoadMeeting(m, listing, fault, gpu_error)
  \/ \E r \in 1..LoadReqs, m \in AskedIds : \E listing \in ListingInputs(m),
        fault \in FaultInputs(m), gpu_error \in GpuInputs(m) :
          AskStart(r, m, listing, fault, gpu_error)
  \/ \E r \in Reqs : \E fault \in RetrieveFaults(r) : Retrieve(r, fault)
  \/ \E r \in Reqs, fault \in {"none", "llm"} : Complete(r, fault)
  \/ \E m \in AskedIds : ClearContext(m)
  \/ Cleanup(0)

SpecLoad == InitLoad /\ [][NextLoad]_vars

\* Every operation around one question: artifacts of every shape, and releases
\* that fail.
NextOps ==
  \/ \E f \in WrittenFiles, shape \in Shapes : StoreArtifact(f, shape)
  \/ \E m \in AskedIds : \E listing \in ListingInputs(m),
        fault \in FaultInputs(m), gpu_error \in GpuInputs(m) :
          LoadMeeting(m, listing, fault, gpu_error)
  \/ \E m \in AskedIds : \E listing \in ListingInputs(m),
        fault \in FaultInputs(m), gpu_error \in GpuInputs(m) :
          AskStart(1, m, listing, fault, gpu_error)
  \/ \E fault \in RetrieveFaults(1) : Retrieve(1, fault)
  \/ \E fault \in {"none", "llm"} : Complete(1, fault)
  \/ \E m \in AskedIds : ClearContext(m)
  \/ \E failed_at \in CleanupInputs : Cleanup(failed_at)

SpecOps == InitLoad /\ [][NextOps]_vars

\* The lookup applied to a directory: one question, with healthy collaborators.
NextLookup ==
  \E m \in MeetingIds : \E listing \in ListingInputs(m) :
    AskStart(1, m, listing, "none", FALSE)

SpecLookup == InitLookup /\ [][NextLookup]_vars

\* The functions of the pipeline, each applied on its own to arguments drawn
\* from bounded sets.
InitPure ==
  /\ InitObject
  /\ use_gpu = FALSE
  /\ store = [f \in {} |-> 0]
  /\ clock = 0
  /\ \/ call \in ContextCalls
     \/ call \in SplitCalls
     \/ \E n \in 1..MaxChunks :
          \E lens \in [1..n -> ChunkLens], scores \in [1..n -> 1..MaxScore] :
            call = SourceCall(lens, scores)
  /\ result = NoResult

NextPure ==
  \/ PrepareContext
  \/ SplitText
  \/ AnswerSources

SpecPure == InitPure /\ [][NextPure]_vars

\* The uploads: an empty output directory, and requests of /analyze-audio
\* one after the other.
InitAnalyze ==
  /\ InitObject
  /\ use_gpu = FALSE
  /\ store = [f \in {} |-> 0]
  /\ clock = 0
  /\ call = NoCall
  /\ result = NoResult

\* The inputs a request reads: a collaborator that is not reached has one
\* outcome, which plays no part.
TranscriptionInputs(filename) ==
  IF filename # <<>> /\ allowed_file(filename) THEN Transcriptions ELSE {"error"}
CompletionInputs(transcription) ==
  IF transcription = "text" THEN Completions ELSE {[kind |-> "api_error"]}
SaveInputs(completion) ==
  IF completion.kind = "json" /\ validate_analysis(completion.analysis)
  THEN SaveFaults ELSE {"none"}

NextAnalyze ==
  \E filename \in UploadNames :
    \E transcription \in TranscriptionInputs(filename) :
      \E completion \in CompletionInputs(transcription) :
        \E fault \in SaveInputs(completion) :
          AnalyzeAudio(filename, transcription, completion, fault)

SpecAnalyze == InitAnalyze /\ [][NextAnalyze]_vars

\* ------------------------------------------------------------------ claims
Started(r) == pc[r] # "idle"

\* The request got past the load: it is waiting for a collaborator or has its
\* answer.
Loaded(r) == pc[r] \in {"retrieving", "answering", "done"}

\* What can make a request fail: a collaborator that fails, or an artifact
\* that is missing or malformed.
FaultKinds == {"disk", "embed", "llm", "no_match", "malformed"}

\* C1: requests for the same meeting that start while its index is not built,
\* or while other requests for it are in flight, run the build path once: the
\* meeting has one completed build, every request past the load finds the
\* index and the memory of that build, and a request fails only when a
\* collaborator fails or the artifact is missing or malformed.
C1_SingleBuildConcurrent ==
  \A r \in Reqs : Started(r) =>
    /\ builds[mid[r]] <= 1
    /\ Loaded(r) => /\ builds[mid[r]] = 1
                    /\ mid[r] \in DOMAIN vectorstores
                    /\ mid[r] \in DOMAIN memories
    /\ pc[r] = "failed" => cause[r] \in FaultKinds

\* Two requests for one meeting wait for the completion service at the same
\* time, over the index of a single build.
C1_Witness ==
  \E r1, r2 \in Reqs :
    /\ r1 # r2
    /\ mid[r1] = mid[r2]
    /\ pc[r1] = "answering" /\ pc[r2] = "answering"
    /\ builds[mid[r1]] = 1

\* The load resolves an artifact for the meeting, and it is a valid one.
ResolvesValid(m, listing) ==
  /\ MatchedFiles(m, listing) # <<>>
  /\ store[LatestFile(MatchedFiles(m, listing), store)].shape = "valid"

\* C2: in every reachable state, a load that fails stores nothing (the index
\* map and the memories are as before, the meeting has no index), and a load
\* of a meeting without index that meets no fault and resolves a valid
\* artifact builds the index, whatever failed before.
C2_FailedLoadNotCached ==
  \A m \in AskedIds : \A listing \in Listings(store), fault \in LoadFaults,
                         gpu_error \in BOOLEAN :
    LET res == load_meeting_data(m, listing, fault, gpu_error)
    IN  /\ ~res.ret => /\ res.vectorstores = vectorstores
                       /\ res.memories = memories
                       /\ m \notin DOMAIN res.vectorstores
        /\ (m \notin DOMAIN vectorstores /\ fault = "none"
              /\ ResolvesValid(m, listing))
             => (res.ret /\ res.built /\ m \in DOMAIN res.vectorstores)

\* A question failed in the load (disk, embedding, or a malformed artifact),
\* and the meeting was loaded afterwards.
C2_Witness ==
  /\ pc[1] = "failed"
  /\ cause[1] \in {"disk", "embed", "malformed"}
  /\ mid[1] \in DOMAIN vectorstores
  /\ builds[mid[1]] = 1

\* C3: a meeting has at most one completed build; once it has an index, every
\* load for it returns true without running the build path (no listing, no
\* read, no chunking, no embedding) and leaves the index as it is.
C3_AtMostOneBuild ==
  \A m \in AskedIds :
    /\ builds[m] <= 1
    /\ m \in DOMAIN vectorstores =>
         /\ builds[m] = 1
         /\ \A listing \in Listings(store), fault \in LoadFaults,
               gpu_error \in BOOLEAN :
              LET res == load_meeting_data(m, listing, fault, gpu_error)
              IN  /\ res.ret /\ ~res.read /\ ~res.built
                  /\ res.vectorstores = vectorstores

\* A question was answered for a meeting whose artifact has been written
\* again since its index was built: the index is still that of the one build.
C3_Witness ==
  /\ pc[1] = "done"
  /\ builds[mid[1]] = 1
  /\ store[vectorstores[mid[1]].artifact].ctime > vectorstores[mid[1]].ctime

\* The conversation history of a meeting; none before its memory exists.
Hist(m) == IF m \in DOMAIN memories THEN memories[m] ELSE <<>>

\* C4: a step in which a request fails, or moves on without its answer,
\* leaves the conversation history of every meeting as it was; the turn of a
\* request is appended in the step in which the completion service returns
\* its answer, and in no other.
C4_FailureLeavesMemory ==
  [][\A r \in Reqs :
       /\ (pc'[r] # pc[r] /\ pc'[r] # "done") =>
            \A m \in AskedIds : Hist(m)' = Hist(m)
       /\ (pc'[r] = "done" /\ pc[r] # "done") =>
            /\ pc[r] = "answering"
            /\ Hist(mid[r])' = Hist(mid[r]) \o Turn(r)]_vars

\* A question failed in the completion service, nothing else was answered, and
\* a later question about the same meeting got its answer: the memory holds
\* that turn alone.
C4_Witness ==
  \E r1, r2 \in Reqs :
    /\ r1 < r2
    /\ mid[r1] = mid[r2]
    /\ pc[r1] = "failed" /\ cause[r1] = "llm"
    /\ pc[r2] = "done"
    /\ memories[mid[r2]] = Turn(r2)

\* C5: the chat history a request passes to the completion service starts
\* with the turns answered and not cleared before the request started, each
\* as its question followed by its answer, in the order they were answered;
\* and the history of such an earlier request holds no message of the later
\* one.
C5_HistoryOrdering ==
  \A r2 \in Reqs :
    /\ Len(sent[r2]) >= 2 * Len(prior[r2])
    /\ \A i \in 1..Len(prior[r2]) :
         /\ sent[r2][2 * i - 1] = Human(prior[r2][i])
         /\ sent[r2][2 * i] = Ai(prior[r2][i])
         /\ \A j \in 1..Len(sent[prior[r2][i]]) : sent[prior[r2][i]][j][2] # r2

\* Q1 was answered, Q2 was asked afterwards and has its answer too.
C5_Witness ==
  \E r1, r2 \in Reqs :
    /\ pc[r1] = "done" /\ pc[r2] = "done"
    /\ prior[r2] = <<r1>>
    /\ sent[r2] = Turn(r1)

\* C6: the memory of a meeting holds exactly the turns of the requests
\* answered since its last clear, one turn each, whole (question, then its
\* answer), in the order in which the answers completed.
C6_SerializedAppend ==
  \A m \in DOMAIN memories :
    /\ Len(memories[m]) = 2 * Len(answered[m])
    /\ \A i \in 1..Len(answered[m]) :
         /\ memories[m][2 * i - 1] = Human(answered[m][i])
         /\ memories[m][2 * i] = Ai(answered[m][i])
    /\ \A i, j \in 1..Len(answered[m]) : answered[m][i] = answered[m][j] => i = j

\* Two questions about one meeting were in flight together (neither saw the
\* other's turn when it composed its history) and both turns are in the
\* memory, the one that was asked last first.
C6_Witness ==
  \E r1, r2 \in Reqs :
    /\ r1 < r2
    /\ mid[r1] = mid[r2]
    /\ pc[r1] = "done" /\ pc[r2] = "done"
    /\ sent[r1] = <<>> /\ sent[r2] = <<>>
    /\ memories[mid[r1]] = Turn(r2) \o Turn(r1)

\* C7: the chat history passed to the completion service holds at most
\* NumReqs - 2 turns, a bound below the number of questions that can have
\* been answered before one is asked.
C7_HistoryBounded ==
  \A r \in Reqs : Len(sent[r]) <= 2 * (NumReqs - 2)

\* A name or an id with letter case and spaces-versus-underscores ignored.
Normalized(x) == Lower(ReplaceSpaces(x))

\* The artifact's name is the meeting id up to letter case and up to spaces
\* versus underscores (the stored name goes on with the timestamp).
TolerantMatch(m, f) ==
  EndsWithJson(f) /\ StartsWith(Normalized(f), Normalized(m))

\* C8: a question about a meeting id for which an artifact is stored whose
\* name equals the id up to letter case and spaces versus underscores gets
\* past the load, and the meeting has its index.
C8_TolerantLookup ==
  (Started(1) /\ \E f \in DOMAIN store : TolerantMatch(mid[1], f)) =>
    (Loaded(1) /\ mid[1] \in DOMAIN vectorstores)

\* The artifacts that match a meeting id under one of the four patterns.
Matching(m) ==
  {f \in DOMAIN store :
     EndsWithJson(f) /\ \E i \in 1..4 : MatchesPattern(f, Patterns(m)[i])}

\* C9: a question about a meeting id that no stored artifact matches fails
\* in its first step with the not-found error, and leaves the meeting
\* without index, without memory and without build.
C9_NoMatchFails ==
  (Started(1) /\ Matching(mid[1]) = {}) =>
    /\ pc[1] = "failed"
    /\ cause[1] = "no_match"
    /\ err[1] = "Meeting data not found"
    /\ mid[1] \notin DOMAIN vectorstores
    /\ mid[1] \notin DOMAIN memories
    /\ builds[mid[1]] = 0

\* "Nonexistent Meeting" was asked about over a directory that holds
\* artifacts of another meeting.
C9_Witness ==
  /\ pc[1] = "failed"
  /\ mid[1] = IdNonexistent
  /\ FileWeekly1 \in DOMAIN store
  /\ FileLower1 \in DOMAIN store

\* C10: the artifact an index was built from matches the meeting id, and no
\* matching artifact has a greater creation time.
C10_LatestMatchLoaded ==
  \A m \in DOMAIN vectorstores :
    /\ vectorstores[m].artifact \in Matching(m)
    /\ vectorstores[m].ctime = store[vectorstores[m].artifact].ctime
    /\ \A f \in Matching(m) : store[f].ctime <= vectorstores[m].ctime

\* Three artifacts match the id, the newest of them under two patterns, and
\* the newest was loaded.
C10_Witness ==
  \E m \in DOMAIN vectorstores :
    /\ Cardinality(Matching(m)) = 3
    /\ Cardinality({i \in 1..4 :
         MatchesPattern(vectorstores[m].artifact, Patterns(m)[i])}) >= 2
    /\ \A f \in Matching(m) \ {vectorstores[m].artifact} :
         store[f].ctime < vectorstores[m].ctime

\* The history of meeting m in the memories mems.
HistOf(mems, m) == IF m \in DOMAIN mems THEN mems[m] ELSE <<>>

\* C11: in every reachable state, clearing the context of any meeting returns
\* true, with a memory or without, and so does clearing it again; after each
\* of the two calls the history of the meeting is empty, the second call
\* changes nothing, and a call for a meeting without memory leaves the
\* memories as they are (no memory is created); the step of a clear request
\* leaves the index map as it is.
C11_ClearIdempotent ==
  [][\A m \in MeetingIds :
       LET once == clear_meeting_context(memories, m)
           twice == clear_meeting_context(once.memories, m)
       IN  /\ once.ret /\ twice.ret
           /\ HistOf(once.memories, m) = <<>>
           /\ HistOf(twice.memories, m) = <<>>
           /\ twice.memories = once.memories
           /\ m \notin DOMAIN memories => once.memories = memories
           /\ ClearContext(m) =>
                /\ memories' = once.memories
                /\ vectorstores' = vectorstores
                /\ DOMAIN memories' = DOMAIN memories]_vars

\* A question about one meeting was answered and the memory of the meeting
\* is empty: its context was cleared; the other meeting was never loaded.
C11_Witness ==
  /\ pc[1] = "done"
  /\ memories[mid[1]] = <<>>
  /\ \E m \in AskedIds : m \notin DOMAIN memories /\ m \notin DOMAIN vectorstores

\* C12: the step of a clear request for a meeting changes the turns of that
\* meeting only: the index map is as before (presence, artifact, placement of
\* every index), no build is counted, the memories of the other meetings are
\* as before; a meeting that had index and memory has them afterwards, and a
\* load for it then returns true without reading or building anything.
C12_ClearKeepsIndex ==
  [][\A m \in AskedIds : ClearContext(m) =>
       /\ vectorstores' = vectorstores
       /\ builds' = builds
       /\ DOMAIN memories' = DOMAIN memories
       /\ \A x \in DOMAIN memories \ {m} : memories'[x] = memories[x]
       /\ m \in DOMAIN vectorstores =>
            /\ m \in DOMAIN vectorstores' /\ m \in DOMAIN memories'
            /\ \A listing \in Listings(store), fault \in LoadFaults,
                  gpu_error \in BOOLEAN :
                 LET res == load_meeting_data(m, listing, fault, gpu_error)'
                 IN  res.ret /\ ~res.read /\ ~res.built]_vars

\* The context of a meeting was cleared after a question about it was
\* answered; its index is on the accelerator, from its one build.
C12_Witness ==
  /\ pc[1] = "done"
  /\ memories[mid[1]] = <<>>
  /\ vectorstores[mid[1]].device = "gpu"
  /\ builds[mid[1]] = 1

\* C13: in every reachable state, when cleanup runs, every index of the map
\* other than the one whose release fails is in host memory afterwards,
\* whether it was placed on the accelerator or not.
C13_AllReleased ==
  \A failed_at \in CleanupInputs :
    LET after == cleanup(vectorstores, failed_at).vectorstores
    IN  \A m \in DOMAIN after :
          vectorstores[m].pos # failed_at => after[m].device = "cpu"

\* C14: in every reachable state, running cleanup raises nothing, running it
\* again (the same release failing, if one does) raises nothing and leaves
\* what the first run left; no index is removed, and an index that is in host
\* memory, because there is no accelerator or because its placement failed,
\* is after the cleanup what it was before.
C14_CleanupIdempotent ==
  \A failed_at \in CleanupInputs :
    LET once == cleanup(vectorstores, failed_at)
        twice == cleanup(once.vectorstores, failed_at)
    IN  /\ ~once.raised /\ ~twice.raised
        /\ twice.vectorstores = once.vectorstores
        /\ DOMAIN once.vectorstores = DOMAIN vectorstores
        /\ \A m \in DOMAIN vectorstores :
             vectorstores[m].device = "cpu" =>
               once.vectorstores[m] = vectorstores[m]

\* With an accelerator in use, the meeting loaded first has its index on it
\* and the meeting loaded second has not: no cleanup leaves the indices so,
\* the second index was never accelerated.
C14_Witness ==
  /\ use_gpu
  /\ \E a, b \in DOMAIN vectorstores :
       /\ vectorstores[a].pos = 1 /\ vectorstores[a].device = "gpu"
       /\ vectorstores[b].pos = 2 /\ vectorstores[b].device = "cpu"

\* C15: a failed request has failed for a missing or malformed artifact or
\* for a failing collaborator, never for the placement; and in every
\* reachable state with an accelerator in use, a load of a meeting without
\* index that resolves a valid artifact, meets no other fault, and whose move
\* to the accelerator raises, returns true, stores the index it built from
\* the latest artifact, in host memory, and an empty memory for the meeting.
C15_PlacementFallback ==
  /\ \A r \in Reqs : pc[r] = "failed" => cause[r] \in FaultKinds
  /\ \A m \in AskedIds : \A listing \in Listings(store) :
       (use_gpu /\ m \notin DOMAIN vectorstores /\ ResolvesValid(m, listing)) =>
         LET res == load_meeting_data(m, listing, "none", TRUE)
         IN  /\ res.ret /\ res.built
             /\ m \in DOMAIN res.vectorstores
             /\ res.vectorstores[m].device = "cpu"
             /\ res.vectorstores[m].artifact =
                  LatestFile(MatchedFiles(m, listing), store)
             /\ m \in DOMAIN res.memories
             /\ res.memories[m] = NewMemory

\* With an accelerator in use, a question was answered about the meeting
\* loaded second, whose index is in host memory while the index loaded first
\* is on the accelerator: the placement of the second failed.
C15_Witness ==
  /\ use_gpu
  /\ pc[1] = "done"
  /\ mid[1] \in DOMAIN vectorstores
  /\ vectorstores[mid[1]].pos = 2
  /\ vectorstores[mid[1]].device = "cpu"
  /\ \E a \in DOMAIN vectorstores :
       vectorstores[a].pos = 1 /\ vectorstores[a].device = "gpu"

\* The request-fatal kind of the failure of request r: the load found no
\* artifact, the artifact was malformed, the index could not be built, or
\* the completion service failed; other, for the failures the four kinds do
\* not cover (the disk, the embedding of the question).
FatalKind(r) ==
  IF err[r] = NotFoundDetail
  THEN CASE cause[r] = "no_match" -> "not_found"
         [] cause[r] = "malformed" -> "malformed_record"
         [] cause[r] = "embed" -> "index_build"
         [] OTHER -> "other"
  ELSE IF cause[r] = "llm" THEN "completion" ELSE "other"

\* C16: two failed requests whose failures are of different request-fatal
\* kinds carry different error details.
C16_KindsDistinguished ==
  \A r1, r2 \in Reqs :
    ( /\ pc[r1] = "failed" /\ pc[r2] = "failed"
      /\ FatalKind(r1) # "other" /\ FatalKind(r2) # "other"
      /\ FatalKind(r1) # FatalKind(r2) )
    => err[r1] # err[r2]

\* C17: in every reachable state, a load of a meeting without index that
\* meets no fault of a collaborator and resolves an artifact that has not the
\* shape of a meeting analysis fails, with nothing stored for the meeting;
\* and once the artifact resolved is a valid one, the load builds the index.
C17_MalformedRejected ==
  \A m \in AskedIds : \A listing \in Listings(store), gpu_error \in BOOLEAN :
    LET res == load_meeting_data(m, listing, "none", gpu_error)
        files == MatchedFiles(m, listing)
    IN  (m \notin DOMAIN vectorstores /\ files # <<>>) =>
          IF store[LatestFile(files, store)].shape # "valid"
          THEN /\ ~res.ret
               /\ m \notin DOMAIN res.vectorstores
               /\ m \notin DOMAIN res.memories
          ELSE res.ret /\ res.built /\ m \in DOMAIN res.vectorstores

\* What the object holds for meeting m: its index, if it has one (the load
\* state), and its conversation history, if it has a memory.
MeetingState(m) ==
  [index |-> IF m \in DOMAIN vectorstores THEN <<vectorstores[m]>> ELSE <<>>,
   memory |-> IF m \in DOMAIN memories THEN <<memories[m]>> ELSE <<>>,
   builds |-> builds[m]]

\* The step is one of an operation on meeting a: a clear or a load request
\* for a, or a step of a question about a (its start, a fault, the return of
\* a collaborator).
OperationOn(a) ==
  \/ ClearContext(a)
  \/ \E r \in Reqs : pc'[r] # pc[r] /\ mid'[r] = a
  \/ \E listing \in ListingInputs(a), fault \in FaultInputs(a),
        gpu_error \in GpuInputs(a) : LoadMeeting(a, listing, fault, gpu_error)

\* C18: a step of an operation on a meeting, successful or failed, leaves
\* what the object holds for every other meeting id as it was: index, load
\* state and conversation history.
C18_MeetingsIndependent ==
  [][\A a \in AskedIds : OperationOn(a) =>
       \A b \in MeetingIds \ {a} : MeetingState(b)' = MeetingState(b)]_vars

\* A question about one meeting was answered and its turn is in the memory,
\* while the other meeting, loaded after it, has an index and an empty
\* memory: it was loaded, and possibly cleared, beside the conversation.
C18_Witness ==
  /\ pc[1] = "done"
  /\ memories[mid[1]] = Turn(1)
  /\ \E a \in DOMAIN vectorstores :
       /\ a # mid[1]
       /\ vectorstores[a].pos = 2
       /\ memories[a] = <<>>

\* C19: the load of a meeting suspends at the disk read and at the index
\* build, so that other requests can take steps before it has finished: the
\* step in which a question starts does not itself complete the build and
\* store the index of its meeting.
C19_LoadSuspends ==
  [][\A r \in Reqs : (pc[r] = "idle" /\ pc'[r] # "idle") =>
       /\ builds' = builds
       /\ vectorstores' = vectorstores]_vars

\* A request has its answer or its error.
Finished(r) == pc[r] \in {"done", "failed"}

\* C20: every question that has started eventually finishes, with its answer
\* or with an error, whether the collaborators respond or not.
C20_EveryQuestionFinishes ==
  \A r \in Reqs : Started(r) ~> Finished(r)

\* C21: every step other than the shutdown cleanup leaves each index of the
\* map in the map and as it is (same build, same artifact, same placement):
\* no step of a question, of a load or of a clear releases, moves, replaces
\* or removes an index.
C21_IndexKeptByHandlers ==
  [][\/ \E failed_at \in CleanupInputs : Cleanup(failed_at)
     \/ \A m \in DOMAIN vectorstores :
          /\ m \in DOMAIN vectorstores'
          /\ vectorstores'[m] = vectorstores[m]]_vars

\* With its index on the accelerator, a meeting was asked about, its context
\* was cleared, and its artifact was written again after the build: the
\* index is still that of the build.
C21_Witness ==
  /\ pc[1] = "done"
  /\ memories[mid[1]] = <<>>
  /\ vectorstores[mid[1]].device = "gpu"
  /\ store[vectorstores[mid[1]].artifact].ctime > vectorstores[mid[1]].ctime

\* The smaller of two numbers.
Min(a, b) == IF a < b THEN a ELSE b

\* The preview shows the first 200 characters of the chunk, or the whole
\* chunk when it is shorter, and then "...".
IsPreviewOf(preview, chunk) ==
  LET shown == Min(Len(chunk), 200)
  IN  /\ Len(preview) = shown + 3
      /\ \A i \in 1..shown : preview[i] = chunk[i]
      /\ \A i \in shown + 1..shown + 3 : preview[i] = "."

\* C22: the sources of an answer are min(3, number of chunks) previews; they
\* are the previews of distinct chunks of the index, in an order in which
\* the similarity to the question never increases, and no chunk left out is
\* more similar than one that is shown.
C22_SourcesArePreviews ==
  (call.fn = "sources" /\ result # NoResult) =>
    LET n == Len(call.chunks)
        Ranks == {docs \in [1..Min(3, n) -> 1..n] :
                    \A i, j \in DOMAIN docs : docs[i] = docs[j] => i = j}
    IN  /\ Len(result) = Min(3, n)
        /\ \E docs \in Ranks :
             /\ \A i \in DOMAIN docs : IsPreviewOf(result[i], call.chunks[docs[i]])
             /\ \A i, j \in DOMAIN docs :
                  i < j => call.scores[docs[i]] >= call.scores[docs[j]]
             /\ \A c \in 1..n : (\A i \in DOMAIN docs : docs[i] # c) =>
                  \A i \in DOMAIN docs : call.scores[c] <= call.scores[docs[i]]

\* An answer over four chunks: the three sources are those of the more similar
\* chunks, of which one is longer than 200 characters and one is shorter;
\* the chunk left out is the first of the index.
C22_Witness ==
  /\ call.fn = "sources"
  /\ Len(call.chunks) = 4
  /\ Len(result) = 3
  /\ call.scores[1] < call.scores[4]
  /\ \E i, j \in 1..3 : Len(result[i]) = 203 /\ Len(result[j]) = 153
  /\ \A i \in 1..3 : result[i][1][1] # 1

\* The least integer not below a / b, for a positive b.
CeilDiv(a, b) == IF a <= 0 THEN 0 ELSE ((a - 1) \div b) + 1

\* C23: a document of length L is split into exactly
\* ceil((L - 200) / (1000 - 200)) chunks, into exactly one when L <= 1000, and
\* no chunk is longer than 1000.
C23_ChunkCount ==
  (call.fn = "split" /\ result # NoResult) =>
    LET L == DocLen(call.paras)
    IN  /\ Len(result) = IF L <= 1000 THEN 1 ELSE CeilDiv(L - 200, 1000 - 200)
        /\ \A i \in 1..Len(result) : result[i] <= 1000

\* The sections of a context: its parts between the blank lines.
RECURSIVE SectionsOf(_)
SectionsOf(text) ==
  IF \A i \in 1..Len(text) : text[i] # "\n\n" THEN <<text>>
  ELSE LET cut == CHOOSE i \in 1..Len(text) :
                    text[i] = "\n\n" /\ \A j \in 1..i - 1 : text[j] # "\n\n"
       IN  <<SubSeq(text, 1, cut - 1)>> \o SectionsOf(SubSeq(text, cut + 1, Len(text)))

\* The labels of the eight sections, in their order, and the fields they show.
SectionLabels ==
  <<"Full Transcript:\n", "Key Points:\n", "Action Items:\n", "Participants: ",
    "Follow-up Items:\n", "Important Dates:\n", "Next Steps:\n",
    "Meeting Summary:\n">>
SectionFields ==
  <<"transcript", "key_points", "action_items", "participants", "follow_up",
    "dates", "next_steps", "summary">>

\* C24: the context prepared from a record has eight sections, each starting
\* with its label, in the order transcript, key points, action items,
\* participants, follow-ups, dates, next steps, summary; the section of an
\* empty list is its label alone.
C24_EightSections ==
  (call.fn = "context" /\ result # NoResult) =>
    LET parts == SectionsOf(result)
    IN  /\ Len(parts) = 8
        /\ \A i \in 1..8 :
             /\ parts[i][1] = SectionLabels[i]
             /\ (i \in 2..6 /\ call.meeting_data[SectionFields[i]] = <<>>)
                  => Len(parts[i]) = 1

\* C25: in every reachable state the index map and the memories have the same
\* keys, and so have the maps every call of load_meeting_data would leave,
\* whatever it reads and whichever collaborator fails; a question that got
\* past the load has both its index and its memory.
C25_IndexIffMemory ==
  /\ DOMAIN vectorstores = DOMAIN memories
  /\ \A m \in MeetingIds : \A listing \in Listings(store), fault \in LoadFaults,
                             gpu_error \in BOOLEAN :
       LET res == load_meeting_data(m, listing, fault, gpu_error)
       IN  DOMAIN res.vectorstores = DOMAIN res.memories
  /\ Loaded(1) => (mid[1] \in DOMAIN vectorstores /\ mid[1] \in DOMAIN memories)

\* A question about one meeting failed inside the load (disk, embedding or a
\* malformed artifact) and left neither index nor memory, while the other
\* meeting has both.
C25_Witness ==
  \E a, b \in AskedIds :
    /\ a \in DOMAIN vectorstores /\ a \in DOMAIN memories
    /\ pc[1] = "failed" /\ mid[1] = b
    /\ cause[1] \in {"disk", "embed", "malformed"}
    /\ b \notin DOMAIN vectorstores /\ b \notin DOMAIN memories

\* The request completes with its answer in this step, for meeting m.
Succeeds(r, m) == pc[r] # "done" /\ pc'[r] = "done" /\ mid[r] = m

\* C26: after every step the memory of a meeting holds as many turns as
\* questions about it were answered since its memories were made or last
\* cleared; the step in which a question is answered adds one turn, that
\* question's, and counts it; a clear empties the memory and starts the count
\* again; and no other step makes the memory longer.
C26_TurnsCountAnswers ==
  [][\A m \in AskedIds :
       /\ Len(Hist(m)') = 2 * Len(answered'[m])
       /\ \A r \in Reqs : Succeeds(r, m) =>
            /\ Hist(m)' = Hist(m) \o Turn(r)
            /\ answered'[m] = Append(answered[m], r)
       /\ ClearContext(m) => (Hist(m)' = <<>> /\ answered'[m] = <<>>)
       /\ Len(Hist(m)') > Len(Hist(m)) => \E r \in Reqs : Succeeds(r, m)]_vars

\* Two questions about a meeting have their answers, its context was cleared
\* after the first answer, and the memory holds one turn, that of the second.
C26_Witness ==
  \E r1, r2 \in Reqs :
    /\ r1 # r2
    /\ mid[r1] = mid[r2]
    /\ pc[r1] = "done" /\ pc[r2] = "done"
    /\ answered[mid[r2]] = <<r2>>
    /\ memories[mid[r2]] = Turn(r2)

\* C27: the memory of a meeting holds no turn of a question that was in
\* flight when the context of the meeting was cleared: every turn in it
\* belongs to a question asked since the clear, whose chat history still is
\* the memory's own list.
C27_NoTurnAcrossClear ==
  \A m \in DOMAIN memories :
    \A i \in 1..Len(memories[m]) : alias[memories[m][i][2]]

\* C28: the index and the memory of a question are those stored under its
\* meeting id as the caller gave it: every key of the two maps is an id some
\* question was asked with, a question past the load finds both under its own
\* id, two ids with an index have one build each (also when both indices were
\* built from the same artifact), a memory holds turns of questions asked
\* with its own id only, and clearing the context of one id leaves the
\* history of every other id as it is.
C28_KeyedAsGiven ==
  /\ DOMAIN vectorstores \subseteq {mid[r] : r \in Reqs}
  /\ DOMAIN memories \subseteq {mid[r] : r \in Reqs}
  /\ \A r \in Reqs : Loaded(r) =>
       (mid[r] \in DOMAIN vectorstores /\ mid[r] \in DOMAIN memories)
  /\ \A a, b \in DOMAIN vectorstores : a # b => (builds[a] = 1 /\ builds[b] = 1)
  /\ \A m \in DOMAIN memories :
       \A i \in 1..Len(memories[m]) : mid[memories[m][i][2]] = m
  /\ \A a \in MeetingIds : \A b \in DOMAIN memories :
       a # b => clear_meeting_context(memories, a).memories[b] = memories[b]

\* "weekly sync" and "Weekly Sync" have an index each, built from the same
\* artifact; a question was answered under each spelling, the context of the
\* first was cleared, and the memory of the second holds its turn.
C28_Witness ==
  \E r1, r2 \in Reqs :
    /\ mid[r1] = IdWeeklyLower /\ mid[r2] = IdWeeklySpace
    /\ pc[r1] = "done" /\ pc[r2] = "done"
    /\ vectorstores[IdWeeklyLower].artifact = vectorstores[IdWeeklySpace].artifact
    /\ builds[IdWeeklyLower] = 1 /\ builds[IdWeeklySpace] = 1
    /\ memories[IdWeeklyLower] = <<>>
    /\ memories[IdWeeklySpace] = Turn(r2)

\* C29: in every reachable state, load_meeting_data for a meeting that has
\* its index returns true and leaves everything as it is, whatever the
\* directory holds and whatever its collaborators would do: no listing and no
\* read, no build, the index map and the memories unchanged, the turns of the
\* meeting still in its memory.
C29_LoadedIsNoOp ==
  \A m \in DOMAIN vectorstores :
    \A listing \in Listings(store), fault \in LoadFaults, gpu_error \in BOOLEAN :
      LET res == load_meeting_data(m, listing, fault, gpu_error)
      IN  /\ res.ret
          /\ ~res.read /\ ~res.built
          /\ res.vectorstores = vectorstores
          /\ res.memories = memories
          /\ HistOf(res.memories, m) = Hist(m)

\* A meeting has its index and a turn in its memory, and a matching artifact
\* newer than the one the index was built from is in the directory.
C29_Witness ==
  \E m \in DOMAIN vectorstores :
    /\ memories[m] = Turn(1)
    /\ \E f \in Matching(m) : store[f].ctime > vectorstores[m].ctime

\* The spellings of a meeting id a stored name may start with.
Variants(m) == {m, ReplaceSpaces(m), Lower(m), Lower(ReplaceSpaces(m))}

\* The name ends in .json and starts with the id or one of its variants.
NamedFor(f, m) == EndsWithJson(f) /\ \E v \in Variants(m) : StartsWith(f, v)

\* C30: the artifact of every index is named for the meeting id of the index
\* (it ends in .json and starts with the id, the id with underscores for
\* spaces, the id in lower case, or both); over every directory, before any
\* question, a load of any id with any listing that succeeds has chosen such
\* an artifact, and it fails when the directory holds none; a question about
\* an id for which none is stored fails and leaves the id without index.
C30_ChosenArtifactNamed ==
  /\ \A m \in DOMAIN vectorstores : NamedFor(vectorstores[m].artifact, m)
  /\ ~Started(1) =>
       \A m \in MeetingIds : \A listing \in Listings(store) :
         LET res == load_meeting_data(m, listing, "none", FALSE)
         IN  /\ res.ret => NamedFor(res.vectorstores[m].artifact, m)
             /\ (~\E f \in DOMAIN store : NamedFor(f, m)) => ~res.ret
  /\ (Started(1) /\ ~\E f \in DOMAIN store : NamedFor(f, mid[1])) =>
       (pc[1] = "failed" /\ mid[1] \notin DOMAIN vectorstores)

\* "weekly sync" has its index, built from the artifact in lower case, while
\* the directory holds a newer artifact named in capitals, which starts with
\* no variant of the id, and a newer file that is not a .json file.
C30_Witness ==
  /\ IdWeeklyLower \in DOMAIN vectorstores
  /\ vectorstores[IdWeeklyLower].artifact = FileLower1
  /\ FileWeekly2 \in DOMAIN store
  /\ store[FileWeekly2].ctime > store[FileLower1].ctime
  /\ FileNotJson \in DOMAIN store
  /\ store[FileNotJson].ctime > store[FileLower1].ctime

\* The texts among the fields of an analysis; the others are lists.
TextFields == {"transcript", "summary", "next_steps"}

\* C31: every file of the output directory is a complete analysis that has
\* each of the ten fields; a request that changed the directory had a
\* transcript and an analysis that passed validate_analysis; a request that
\* did not end with status 200 left the directory as it found it; and
\* validate_analysis accepts an object exactly when it has the ten fields,
\* a text in each of the three text fields and a list in each of the others.
C31_StoredOnlyValidated ==
  /\ \A f \in DOMAIN store :
       /\ store[f].complete
       /\ \A field \in DOMAIN required_fields : field \in DOMAIN store[f].analysis
  /\ call.fn = "analyze_audio" =>
       /\ DOMAIN store # call.files_before =>
            /\ call.transcription = "text"
            /\ call.completion.kind = "json"
            /\ validate_analysis(call.completion.analysis)
       /\ result[1] # "200" => DOMAIN store = call.files_before
  /\ \A a \in Responses :
       validate_analysis(a) <=>
         /\ DOMAIN a = DOMAIN required_fields
         /\ \A field \in DOMAIN a :
              a[field] = (IF field \in TextFields THEN "str" ELSE "list")


\* C32: in every state from which a step is taken, cleanup, whichever move
\* to the host fails, raises nothing, leaves the index map with the same
\* keys, and leaves each index as it is but for the place it resides in;
\* without an accelerator it leaves the index map as it is; and the step of
\* a cleanup leaves the memories with their turns, the requests and the
\* directory unchanged, and every meeting that had its index and its memory
\* has them after it.
C32_CleanupMovesOnly ==
  [][\A failed_at \in CleanupInputs :
       LET res == cleanup(vectorstores, failed_at)
       IN  /\ ~res.raised
           /\ DOMAIN res.vectorstores = DOMAIN vectorstores
           /\ \A m \in DOMAIN vectorstores :
                [res.vectorstores[m] EXCEPT !.device = vectorstores[m].device]
                  = vectorstores[m]
           /\ ~use_gpu => res.vectorstores = vectorstores
           /\ Cleanup(failed_at) =>
                /\ vectorstores' = res.vectorstores
                /\ memories' = memories
                /\ store' = store
                /\ pc' = pc
                /\ \A m \in DOMAIN vectorstores :
                     AlreadyLoaded(m)' /\ m \in DOMAIN memories']_vars

\* With an accelerator in use, both meetings have their index, the first on
\* the host (released or never accelerated) and the second on the
\* accelerator, and the memory of a meeting holds a turn: a cleanup from
\* here moves an index and has a turn to keep.
C32_Witness ==
  /\ use_gpu
  /\ \E a, b \in DOMAIN vectorstores :
       /\ vectorstores[a].pos = 1 /\ vectorstores[a].device = "cpu"
       /\ vectorstores[b].pos = 2 /\ vectorstores[b].device = "gpu"
  /\ \E m \in DOMAIN memories : memories[m] = Turn(1)

====
